---- MODULE Spec2Model ----
(***************************************************************************)
(* Model of file_integrity_checker.py: the digest engine (compute_hash),   *)
(* the tree scanner (scan_directory), the baseline store (save_baseline,   *)
(* load_baseline), the differ (compare) and the two commands (cmd_init,    *)
(* cmd_check), run against a small file system that an environment edits.  *)
(*                                                                         *)
(* Absolute paths are sequences of names (<<"w1","d","a.txt">> stands for  *)
(* /w1/d/a.txt); a pathlib.Path argument is a record [abs, parts].         *)
(***************************************************************************)
EXTENDS Integers, Sequences, FiniteSets, TLC

\* ---------------------------------------------------------------- bounds
MaxTime == 2        \* file-system edits and init runs per behaviour
MaxKeys == 2        \* paths per snapshot handed to compare directly
MaxDigest == 2      \* distinct digests in the snapshots handed to compare

\* ------------------------------------------------------ program constants
CHUNK_SIZE == 1024 * 1024

VARIABLES
    cwd,      \* working directory of the process that runs the next command
    dirs,     \* the root directories that exist
    files,    \* file system: absolute path -> file state
    now,      \* the clock (time.time(), st_mtime)
    out,      \* what the command that just ran did: exit code, lists, printed
              \* lines (NoOut once the environment has moved on)
    hist,     \* per baseline location: what the init that wrote it scanned
    cOld,     \* compare called directly: the old snapshot
    cNew,     \*                          the new snapshot
    cRes      \*                          the result

vars == <<cwd, dirs, files, now, out, hist, cOld, cNew, cRes>>

\* ------------------------------------------------------------ the world
W1 == <<"w1">>
W2 == <<"w2">>
Cwds == {W1, W2}
Roots == {<<"w1", "d">>, <<"w2", "d">>}
\* /w1/d holds a.txt and sub/c.txt; /w2/d is an empty directory
DataPaths == {<<"w1", "d", "a.txt">>, <<"w1", "d", "sub", "c.txt">>}
BaselinePaths == {<<"w1", "b.json">>, <<"w2", "b.json">>,
                  <<"w1", "d", "b.json">>}
AllPaths == DataPaths \cup BaselinePaths

\* command-line arguments
Targets == {[abs |-> FALSE, parts |-> <<"d">>]}
BaselineArgs == {[abs |-> FALSE, parts |-> <<"b.json">>],
                 [abs |-> TRUE, parts |-> <<"w1", "d", "b.json">>]}
Supported == {"sha256"}
Algos == Supported \cup {"bogus"}

\* file contents, as byte strings: "h", "hx"
Contents == {<<"h">>, <<"h", "x">>}
InitContent == <<"h">>

Absent == [exists |-> FALSE]
NoDoc == [none |-> TRUE]
None == [none |-> TRUE]

IsProperPrefix(a, b) == Len(a) < Len(b) /\ SubSeq(b, 1, Len(a)) = a

Min(a, b) == IF a < b THEN a ELSE b

\* All orders in which the elements of a set can be iterated.
Orders(S) == {s \in [1..Cardinality(S) -> S] : \A x \in S : \E i \in DOMAIN s : s[i] = x}

Range(s) == {s[i] : i \in DOMAIN s}

\* ------------------------------------------------------------ pathlib
\* Path.resolve(): an absolute path stays, a relative one is joined to cwd.
resolve(p) == IF p.abs THEN p.parts ELSE cwd \o p.parts

\* p.relative_to(base_dir), as the key str(...) of the snapshot
relative_to(p, base) == SubSeq(p, Len(base) + 1, Len(p))

is_file(fs, p) == p \in AllPaths /\ fs[p].exists

\* a directory exists when it is a working directory, an existing root, or
\* the ancestor of an existing file
is_dir(fs, p) ==
    \/ p \in Cwds
    \/ p \in dirs
    \/ \E q \in AllPaths : fs[q].exists /\ IsProperPrefix(p, q)

\* every file or directory below base
rglob(fs, base) ==
    IF ~is_dir(fs, base) THEN {}
    ELSE UNION {{SubSeq(q, 1, n) : n \in (Len(base) + 1)..Len(q)} :
                q \in {x \in AllPaths : fs[x].exists /\ IsProperPrefix(base, x)}}

\* the direct children of base
glob(fs, base) == {q \in rglob(fs, base) : Len(q) = Len(base) + 1}

\* ------------------------------------------------------------ compute_hash
\* the read loop: chunks of CHUNK_SIZE bytes are fed to the hash state in
\* order until read() returns nothing
RECURSIVE read_loop(_, _, _)
read_loop(bytes, pos, h) ==
    LET chunk == SubSeq(bytes, pos + 1, Min(pos + CHUNK_SIZE, Len(bytes)))
    IN IF chunk = <<>> THEN h
       ELSE read_loop(bytes, pos + Len(chunk), h \o chunk)

\* The outcome of compute_hash(path, algo): a hex digest, or the exception
\* raised.  hashlib.new(algo) runs before the file is opened.  A digest is
\* modelled as the pair (algorithm, content hashed): no collisions.
compute_hash(fs, p, algo) ==
    IF algo \notin Supported
    THEN [raised |-> TRUE, exc |-> "ValueError"]
    ELSE IF ~fs[p].readable
    THEN [raised |-> TRUE, exc |-> "PermissionError"]
    ELSE [raised |-> FALSE,
          hex |-> [algo |-> algo,
                   of |-> [bytes |-> read_loop(fs[p].bytes, 0, <<>>),
                           doc |-> fs[p].doc]]]

\* ---------------------------------------------------------- scan_directory
\* The record stored for one regular file; gone are the files that
\* disappear between is_file() and stat().
file_record(fs, p, algo, gone) ==
    IF p \in gone THEN [error |-> "FileNotFoundError"]
    ELSE LET h == compute_hash(fs, p, algo)
         IN IF h.raised THEN [error |-> h.exc]
            ELSE [hash |-> h.hex, size |-> fs[p].size, mtime |-> fs[p].mtime]

\* the regular files the traversal of base_dir yields
regular_files(fs, base_dir, recursive) ==
    LET base == resolve(base_dir)
        entries == IF recursive THEN rglob(fs, base) ELSE glob(fs, base)
    IN {p \in entries : is_file(fs, p)}

\* variant: a file whose stat or hashing fails is left out
scan_directory_skip(fs, base_dir, recursive, algo, gone) ==
    LET base == resolve(base_dir)
        regular == regular_files(fs, base_dir, recursive)
        good == {p \in regular : p \notin gone /\ ~compute_hash(fs, p, algo).raised}
    IN [k \in {relative_to(p, base) : p \in good} |->
            file_record(fs, base \o k, algo, gone)]

scan_directory(fs, base_dir, recursive, algo, gone) ==
    LET base == resolve(base_dir)
        regular == regular_files(fs, base_dir, recursive)
    IN [k \in {relative_to(p, base) : p \in regular} |->
            file_record(fs, base \o k, algo, gone)]

\* ----------------------------------------------------------------- compare
\* dict.get("hash"): the digest, or None for an error record
get_hash(rec) == IF "hash" \in DOMAIN rec THEN rec.hash ELSE None

\* variant: the whole records are compared
is_modified_records(o, n) == o # n

\* variant: only two real digests are compared
is_modified_both(o, n) ==
    "hash" \in DOMAIN o /\ "hash" \in DOMAIN n /\ o.hash # n.hash

is_modified(o, n) == get_hash(o) # get_hash(n)

\* variant: added is not reduced by the old keys
compare_added_all(old, new, order) ==
    [added |-> DOMAIN new,
     deleted |-> DOMAIN old \ DOMAIN new,
     modified |-> SelectSeq(order, LAMBDA k : is_modified(old[k], new[k]))]

\* order is the order in which the loop iterates over old_keys & new_keys
compare(old, new, order) ==
    LET old_keys == DOMAIN old
        new_keys == DOMAIN new
    IN [added |-> new_keys \ old_keys,
        deleted |-> old_keys \ new_keys,
        modified |-> SelectSeq(order, LAMBDA k : is_modified(old[k], new[k]))]

\* ------------------------------------------------- save / load of baseline
parent(p) == SubSeq(p, 1, Len(p) - 1)

\* open(path, "w") creates or truncates the file; it fails when the
\* directory that is to hold it does not exist
can_open_w(fs, p) == is_dir(fs, parent(p))

\* variant: the document goes to the default --baseline location
save_baseline_default(fs, data, p) ==
    [fs EXCEPT ![cwd \o <<"b.json">>] =
                      [exists |-> TRUE, bytes |-> <<>>, doc |-> data,
                       readable |-> TRUE,
                       size |-> 1 + Cardinality(DOMAIN data.files),
                       mtime |-> now]]

\* the file as left by open("w") + json.dump(data, f)
save_baseline(fs, data, p) ==
    [fs EXCEPT ![p] = [exists |-> TRUE, bytes |-> <<>>, doc |-> data,
                       readable |-> TRUE,
                       size |-> 1 + Cardinality(DOMAIN data.files),
                       mtime |-> now]]

\* json.load of what json.dump wrote
load_baseline(fs, p) == fs[p].doc

\* ------------------------------------------------------------- bookkeeping
NoOut ==
    [cmd |-> "none", exit |-> 0, exc |-> "", baseline |-> <<>>, root |-> <<>>,
     added |-> {}, deleted |-> {}, modified |-> <<>>, printed |-> <<>>,
     old |-> <<>>, new |-> <<>>, regular |-> {}, failing |-> {},
     unreadable |-> {}, algo |-> "", recursive |-> FALSE,
     clean |-> FALSE, initRoot |-> <<>>, wrote |-> FALSE, rootExists |-> TRUE,
     seen |-> <<>>]

NoHist == [written |-> FALSE, root |-> <<>>, clean |-> FALSE, writes |-> 0]

\* any edit of the file system ends "no change since the baseline"
Dirty(h) == [l \in BaselinePaths |-> [h[l] EXCEPT !.clean = FALSE]]

\* the files of gone are removed behind the scanner's back
Vanish(fs, gone) == [p \in AllPaths |-> IF p \in gone THEN Absent ELSE fs[p]]

\* at most one data file disappears during one scan
Races(regular) == {g \in SUBSET (regular \cap DataPaths) : Cardinality(g) <= 1}

\* the files whose stat (gone) or hashing (unreadable, bad algorithm) fails
Failing(fs, regular, algo, gone) ==
    {p \in regular : p \in gone \/ ~fs[p].readable \/ algo \notin Supported}

Keys(ps, base) == {relative_to(p, base) : p \in ps}

\* the state of each regular file when the scan started, by key
Seen(fs, regular, base) == [k \in Keys(regular, base) |-> fs[base \o k]]

NoRes == [called |-> FALSE, added |-> {}, deleted |-> {}, modified |-> <<>>]

\* ---------------------------------------------------------------- cmd_init
cmd_init(target, baseline, algo, recursive, gone) ==
    LET base == target
        regular == regular_files(files, base, recursive)
        scan == scan_directory(files, base, recursive, algo, gone)
        data == [meta |-> [base_dir |-> base, created_at |-> now, algo |-> algo],
                 files |-> scan]
        fs1 == Vanish(files, gone)
        loc == resolve(baseline)
        ghost == [NoOut EXCEPT !.cmd = "init", !.baseline = loc,
                     !.root = resolve(base), !.new = scan,
                     !.regular = Keys(regular, resolve(base)),
                     !.failing = Keys(Failing(files, regular, algo, gone), resolve(base)),
                     !.algo = algo, !.recursive = recursive,
                     !.rootExists = is_dir(files, resolve(base)),
                     !.seen = Seen(files, regular, resolve(base))]
    IN /\ now + 1 + Cardinality(gone) <= MaxTime
       /\ now' = now + 1 + Cardinality(gone)
       /\ IF can_open_w(fs1, loc)
          THEN /\ files' = save_baseline(fs1, data, loc)
               /\ hist' = [Dirty(hist) EXCEPT ![loc] =
                              [written |-> TRUE, root |-> resolve(base), clean |-> TRUE,
                               writes |-> hist[loc].writes + 1]]
               /\ out' = [ghost EXCEPT !.exit = 0, !.wrote = TRUE,
                             !.printed = <<[heading |-> "[+] Baseline created", paths |-> {}]>>]
          ELSE /\ files' = fs1
               /\ hist' = IF gone = {} THEN hist ELSE Dirty(hist)
               /\ out' = [ghost EXCEPT !.exit = 1, !.exc = "FileNotFoundError"]
       /\ UNCHANGED <<cwd, dirs, cOld, cNew, cRes>>

\* --------------------------------------------------------------- cmd_check
report(added, deleted, modified) ==
    IF added = {} /\ deleted = {} /\ modified = <<>>
    THEN <<[heading |-> "[+] No changes detected", paths |-> {}]>>
    ELSE (IF added # {} THEN <<[heading |-> "[+] Added files:", paths |-> added]>> ELSE <<>>)
         \o (IF deleted # {} THEN <<[heading |-> "[-] Deleted files:", paths |-> deleted]>> ELSE <<>>)
         \o (IF modified # <<>>
             THEN <<[heading |-> "[!] Modified files:", paths |-> Range(modified)]>> ELSE <<>>)

\* variant: modified files alone do not count as a change
exit_code_no_modified(added, deleted, modified) ==
    IF added = {} /\ deleted = {} THEN 0 ELSE 2

exit_code(added, deleted, modified) ==
    IF added = {} /\ deleted = {} /\ modified = <<>> THEN 0 ELSE 2

cmd_check(baseline_arg) ==
    LET loc == resolve(baseline_arg)
    IN IF ~is_file(files, loc)
       THEN /\ out' = [NoOut EXCEPT !.cmd = "check", !.baseline = loc,
                          !.exit = 1, !.exc = "FileNotFoundError"]
            /\ UNCHANGED <<cwd, dirs, files, now, hist, cOld, cNew, cRes>>
       ELSE LET baseline == load_baseline(files, loc)
                base_dir == baseline.meta.base_dir
                algo == baseline.meta.algo
                old == baseline.files
                regular == regular_files(files, base_dir, TRUE)
            IN \E gone \in Races(regular) :
               /\ gone # {} => now < MaxTime
               /\ now' = IF gone = {} THEN now ELSE now + 1
               /\ files' = Vanish(files, gone)
               /\ hist' = IF gone = {} THEN hist ELSE Dirty(hist)
               /\ LET new_scan == scan_directory(files, base_dir, TRUE, algo, gone)
                      ghost == [NoOut EXCEPT !.cmd = "check", !.baseline = loc,
                                   !.root = resolve(base_dir),
                                   !.old = old, !.new = new_scan,
                                   !.regular = Keys(regular, resolve(base_dir)),
                                   !.failing = Keys(Failing(files, regular, algo, gone),
                                                    resolve(base_dir)),
                                   !.unreadable = Keys({p \in regular \ gone : ~files[p].readable},
                                                       resolve(base_dir)),
                                   !.algo = algo, !.recursive = TRUE,
                                   !.clean = hist[loc].written /\ hist[loc].clean /\ gone = {},
                                   !.initRoot = hist[loc].root,
                                   !.rootExists = is_dir(files, resolve(base_dir)),
                                   !.seen = Seen(files, regular, resolve(base_dir))]
                  IN \E order \in Orders(DOMAIN old \cap DOMAIN new_scan) :
                     LET res == compare(old, new_scan, order)
                     IN out' = [ghost EXCEPT
                                   !.added = res.added, !.deleted = res.deleted,
                                   !.modified = res.modified,
                                   !.printed = report(res.added, res.deleted, res.modified),
                                   !.exit = exit_code(res.added, res.deleted, res.modified)]
               /\ UNCHANGED <<cwd, dirs, cOld, cNew, cRes>>

\* ------------------------------------------------------------- environment
NewFile(c) == [exists |-> TRUE, bytes |-> c, doc |-> NoDoc, readable |-> TRUE,
               size |-> Len(c), mtime |-> now]

WriteFile(p, c) ==
    /\ now < MaxTime
    /\ SubSeq(p, 1, 2) \in dirs
    /\ IF files[p].exists THEN files[p].bytes # c ELSE TRUE
    /\ files' = [files EXCEPT ![p] =
                    IF files[p].exists
                    THEN [NewFile(c) EXCEPT !.readable = files[p].readable]
                    ELSE NewFile(c)]
    /\ now' = now + 1
    /\ hist' = Dirty(hist)
    /\ out' = NoOut
    /\ UNCHANGED <<cwd, dirs, cOld, cNew, cRes>>

DeleteFile(p) ==
    /\ now < MaxTime
    /\ files[p].exists
    /\ files' = [files EXCEPT ![p] = Absent]
    /\ now' = now + 1
    /\ hist' = Dirty(hist)
    /\ out' = NoOut
    /\ UNCHANGED <<cwd, dirs, cOld, cNew, cRes>>

Chmod(p) ==
    /\ now < MaxTime
    /\ files[p].exists
    /\ files' = [files EXCEPT ![p].readable = ~files[p].readable]
    /\ now' = now + 1
    /\ hist' = Dirty(hist)
    /\ out' = NoOut
    /\ UNCHANGED <<cwd, dirs, cOld, cNew, cRes>>

RemoveRoot(r) ==
    /\ now < MaxTime
    /\ r \in dirs
    /\ dirs' = dirs \ {r}
    /\ files' = [p \in AllPaths |-> IF IsProperPrefix(r, p) THEN Absent ELSE files[p]]
    /\ now' = now + 1
    /\ hist' = Dirty(hist)
    /\ out' = NoOut
    /\ UNCHANGED <<cwd, cOld, cNew, cRes>>

Chdir(c) ==
    /\ c # cwd
    /\ cwd' = c
    /\ out' = NoOut
    /\ UNCHANGED <<dirs, files, now, hist, cOld, cNew, cRes>>

\* ------------------------------------------------------------ the program
Init ==
    /\ now = 0
    /\ cwd = W1
    /\ dirs = Roots
    /\ files = [p \in AllPaths |->
                    IF p \in BaselinePaths THEN Absent ELSE NewFile(InitContent)]
    /\ out = NoOut
    /\ hist = [l \in BaselinePaths |-> NoHist]
    /\ cOld = <<>>
    /\ cNew = <<>>
    /\ cRes = NoRes

CmdInit ==
    \E target \in Targets, baseline \in BaselineArgs, algo \in Algos,
       recursive \in BOOLEAN :
        \E gone \in Races(regular_files(files, target, recursive)) :
            cmd_init(target, baseline, algo, recursive, gone)

CmdCheck == \E baseline \in BaselineArgs : cmd_check(baseline)

Next ==
    \/ CmdInit
    \/ CmdCheck
    \/ \E p \in DataPaths, c \in Contents : WriteFile(p, c)
    \/ \E p \in DataPaths : DeleteFile(p)
    \/ \E p \in DataPaths : Chmod(p)
    \/ \E r \in Roots : RemoveRoot(r)
    \/ \E c \in Cwds : Chdir(c)

Spec == Init /\ [][Next]_vars

\* ------------------------------------------- compare on arbitrary snapshots
\* relative paths "d", "d/d", ...
CmpKey(i) == [j \in 1..i |-> "d"]
CmpKeys == {CmpKey(i) : i \in 1..MaxKeys}
CmpDigest(i) == [algo |-> "sha256", of |-> [bytes |-> [j \in 1..i |-> "h"], doc |-> NoDoc]]
CmpRecords ==
    {[hash |-> CmpDigest(i), size |-> i, mtime |-> 0] : i \in 1..MaxDigest}
    \cup {[error |-> e] : e \in {"PermissionError", "FileNotFoundError"}}
Snapshots == UNION {[S -> CmpRecords] : S \in SUBSET CmpKeys}

InitCompare ==
    /\ now = 0
    /\ cwd = W1
    /\ dirs = Roots
    /\ files = [p \in AllPaths |-> Absent]
    /\ out = NoOut
    /\ hist = [l \in BaselinePaths |-> NoHist]
    /\ cOld \in Snapshots
    /\ cNew \in Snapshots
    /\ cRes = NoRes

CompareStep ==
    /\ ~cRes.called
    /\ \E order \in Orders(DOMAIN cOld \cap DOMAIN cNew) :
          cRes' = [called |-> TRUE] @@ compare(cOld, cNew, order)
    /\ UNCHANGED <<cwd, dirs, files, now, out, hist, cOld, cNew>>

NextCompare == CompareStep

SpecCompare == InitCompare /\ [][NextCompare]_vars

\* ================================================================= claims

IsError(rec) == "error" \in DOMAIN rec
HasDigest(rec) == "hash" \in DOMAIN rec
Listed(o) == o.added \cup o.deleted \cup Range(o.modified)
Scanned(o) == o.cmd = "init" \/ (o.cmd = "check" /\ o.exc = "")

\* C1: the result of compare partitions the keys of both snapshots: added,
\* deleted, modified and unchanged (common keys not in modified) are
\* pairwise disjoint, modified lists no key twice, and together they are
\* exactly keys(old) \cup keys(new).
PartitionLaw ==
    cRes.called =>
        LET A == cRes.added
            D == cRes.deleted
            M == Range(cRes.modified)
            U == (DOMAIN cOld \cap DOMAIN cNew) \ M
        IN /\ A \cap D = {} /\ A \cap M = {} /\ A \cap U = {}
           /\ D \cap M = {} /\ D \cap U = {} /\ M \cap U = {}
           /\ Cardinality(M) = Len(cRes.modified)
           /\ A \cup D \cup M \cup U = DOMAIN cOld \cup DOMAIN cNew

PartitionLawWitness ==
    /\ cRes.called
    /\ cRes.added \cup cRes.deleted # {} /\ cRes.modified # <<>>
    /\ \E k \in Range(cRes.modified) : IsError(cOld[k]) \/ IsError(cNew[k])

\* C2 as stated: a common key is in modified iff the digests differ, an
\* absent digest being unequal to everything, another absent digest included.
ModifiedIffDigestsDifferStrict ==
    cRes.called =>
        \A k \in DOMAIN cOld \cap DOMAIN cNew :
            k \in Range(cRes.modified) <=>
                ~(HasDigest(cOld[k]) /\ HasDigest(cNew[k]) /\ cOld[k].hash = cNew[k].hash)

\* C2 amended: a common key is in modified iff one record is an error
\* record and the other is not, or both have digests and the digests
\* differ; two error records (whatever their texts) are not modified.
ModifiedIffDigestsDiffer ==
    cRes.called =>
        \A k \in DOMAIN cOld \cap DOMAIN cNew :
            k \in Range(cRes.modified) <=>
                \/ HasDigest(cOld[k]) /\ HasDigest(cNew[k]) /\ cOld[k].hash # cNew[k].hash
                \/ HasDigest(cOld[k]) /\ IsError(cNew[k])
                \/ IsError(cOld[k]) /\ HasDigest(cNew[k])

ModifiedIffDigestsDifferWitness ==
    /\ cRes.called
    /\ cRes.modified # <<>>
    /\ \E k \in DOMAIN cOld \cap DOMAIN cNew :
          /\ IsError(cOld[k]) /\ IsError(cNew[k]) /\ cOld[k] # cNew[k]
          /\ k \notin Range(cRes.modified)

\* C3 as stated: a check run with no file-system change since init created
\* its baseline finds nothing added, deleted or modified and exits with 0.
NoChangeCheckIsClean ==
    (out.cmd = "check" /\ out.clean) =>
        /\ out.exit = 0
        /\ out.added = {} /\ out.deleted = {} /\ out.modified = <<>>

\* C4 as stated: init with an unrecognized algorithm aborts with the
\* unsupported-algorithm failure: no baseline document is written and no
\* per-file error records are produced.
UnsupportedAlgorithmAborts ==
    (out.cmd = "init" /\ out.algo \notin Supported) =>
        /\ out.exit # 0
        /\ out.exc = "ValueError"
        /\ ~out.wrote

\* C5 as stated: whatever the working directory at check time, check
\* re-scans exactly the directory that the init that wrote the baseline
\* scanned.
CheckRescansInitRoot ==
    (out.cmd = "check" /\ out.exc = "") => out.root = out.initRoot

\* C6 as stated: with the root directory missing at scan start, init and
\* check end with a fatal error: no baseline is written, and nothing
\* (neither "no changes" nor a list of deleted files) is reported.
MissingRootIsFatal ==
    (out.cmd \in {"init", "check"} /\ ~out.rootExists) =>
        /\ out.exit \notin {0, 2}
        /\ ~out.wrote
        /\ out.printed = <<>>

\* C7: a file that the baseline records with a digest and that check finds
\* present but unreadable is listed in modified, not in added or deleted,
\* and check exits with 2.
UnreadableFileIsModified ==
    (out.cmd = "check" /\ out.exc = "") =>
        \A k \in out.unreadable :
            (k \in DOMAIN out.old /\ HasDigest(out.old[k])) =>
                /\ k \in Range(out.modified)
                /\ k \notin out.added /\ k \notin out.deleted
                /\ out.exit = 2

UnreadableFileIsModifiedWitness ==
    /\ out.cmd = "check" /\ out.exc = ""
    /\ \E k \in out.unreadable : k \in DOMAIN out.old /\ HasDigest(out.old[k])

\* C8: a check that read its baseline exits with 0 iff added, deleted and
\* modified are all empty and with 2 otherwise, and on 2 every non-empty
\* list is printed, whole, under its own heading.
ExitCodeIffClean ==
    (out.cmd = "check" /\ out.exc = "") =>
        /\ out.exit \in {0, 2}
        /\ out.exit = 0 <=> Listed(out) = {}
        /\ out.exit = 2 =>
            /\ out.added # {} =>
                 \E i \in DOMAIN out.printed :
                    out.printed[i] = [heading |-> "[+] Added files:", paths |-> out.added]
            /\ out.deleted # {} =>
                 \E i \in DOMAIN out.printed :
                    out.printed[i] = [heading |-> "[-] Deleted files:", paths |-> out.deleted]
            /\ out.modified # <<>> =>
                 \E i \in DOMAIN out.printed :
                    out.printed[i] = [heading |-> "[!] Modified files:",
                                      paths |-> Range(out.modified)]

ExitCodeIffCleanWitness ==
    /\ out.cmd = "check" /\ out.exc = "" /\ out.exit = 2
    /\ out.added = {} /\ out.deleted = {} /\ out.modified # <<>>

\* C9 as stated: once a baseline document exists, no step changes it; it
\* can only disappear by external deletion.
BaselineNeverChanges ==
    [][\A l \in BaselinePaths :
            files[l].exists => files'[l] \in {files[l], Absent}]_vars

\* C9 amended (a step into a state with out.cmd = "check" that changes out
\* is a run of check, one into out.cmd = "none" is the environment's):
\* check never writes or alters a baseline document; a
\* baseline document is created or changed only by an init that names its
\* path, which replaces it with the document of the new scan, and is
\* removed only by external deletion.
BaselineChangesOnlyByInit ==
    [][/\ (out'.cmd = "check" /\ out' # out) =>
            \A l \in BaselinePaths : files'[l] = files[l]
       /\ \A l \in BaselinePaths :
            files'[l] # files[l] =>
                \/ files'[l] = Absent /\ out'.cmd = "none"
                \/ /\ out'.cmd = "init" /\ out'.wrote /\ out'.baseline = l
                   /\ files'[l].exists
                   /\ files'[l].doc.files = out'.new
                   /\ files'[l].doc.meta.created_at = now]_vars

BaselineChangesOnlyByInitWitness ==
    /\ out.cmd = "check" /\ out.exc = ""
    /\ hist[out.baseline].writes >= 2

====
